---- MODULE Spec2Model ----
(***************************************************************************)
(* A model of src/jeopardy/jeopardy.js: the trivia board's game state      *)
(* (gameCategories, teamScores), the DOM it renders into (panels, clue     *)
(* cells, scoreboard, leaderboard) and the asynchronous game setup          *)
(* (delay timer, categories request, one category request per drawn id).   *)
(*                                                                         *)
(* JavaScript is single threaded: every click handler and every callback   *)
(* runs to its next await without interruption, so each is one action.     *)
(* Array indexes are 0-based in the cell identifiers, as in the source;    *)
(* sequences are 1-based, so cell (c, i) addresses gameCategories[c+1]     *)
(* .clues[i+1].                                                            *)
(***************************************************************************)
EXTENDS Integers, Sequences, FiniteSets, TLC

VARIABLES
    visible,        \* which of the four primary panels are shown
    pc,             \* position of the setup flow: idle, timer, awaitIds, awaitData,
                    \* or rejected (setupAndStartGame ended by an uncaught error)
    requests,       \* the requests the current setup has issued
    lastResponse,   \* the response last delivered to each kind of request
    categoryIds,    \* setupAndStartGame's local categoryIds
    gameCategories, \* the module-level category list
    teamScores,     \* the module-level score mapping
    thead,          \* the rendered header row of #jeopardy (category titles)
    cells,          \* the rendered clue cells of #jeopardy: <<c, i>> -> text
    scoreText,      \* the text of each team's .score element
    rankings,       \* the rendered items of #rankings
    winningHeading, \* the team named by #winning-team-heading (0: not yet set)
    finalRankings,  \* the rendered items of #final-rankings
    gameElements,   \* whether #winning-team-heading, #leaderboard, #complete-game-btn are shown
    rng             \* the state of the random number generator

vars == <<visible, pc, requests, lastResponse, categoryIds, gameCategories, teamScores, thead, cells,
          scoreText, rankings, winningHeading, finalRankings, gameElements, rng>>

----------------------------------------------------------------------------
(* Program constants *)

CATEGORY_TOTAL == 6
CLUES_PER_CATEGORY == 5

(* Bounds of the model *)

\* Categories the remote service holds (the pool the categories request returns).
PoolSize == 7
\* The random number generator cycles through RandModulus values k / RandModulus.
RandModulus == 2
\* The teams' scores sum to at most MaxPoints hundreds (SpecScore), and to at
\* most MaxPointsAll hundreds where every other event interleaves (Spec).
MaxPoints == 3
MaxPointsAll == 1
\* At most MaxFailures category requests of one setup fail.
MaxFailures == 1
\* At most MaxRevealed clues of a board are out of the hidden state at a time
\* (SpecBoard); where every other event interleaves (Spec) the user clicks only
\* the first MaxCellsAll cells, counted down the columns.
MaxRevealed == 1
MaxCellsAll == 1

Teams == <<1, 2, 3>>
TeamSet == {1, 2, 3}
Panels == {"start", "loading", "board", "rankings"}

Min(a, b) == IF a < b THEN a ELSE b
Max(a, b) == IF a > b THEN a ELSE b

\* JavaScript's undefined, and a defined value wrapped so the two compare.
Undefined == [defined |-> FALSE]

----------------------------------------------------------------------------
(* The remote service: a read-only database of categories and clues. *)

HiddenText == <<"?">>
Title(id) == <<"title", id>>
\* Categories hold 5 or 6 clues, but for category 2, which holds only 3.
ClueCount(id) == IF id = 2 THEN 3 ELSE 5 + (id % 2)
RemoteClue(id, j) == [question |-> <<"q", id, j>>, answer |-> <<"a", id, j>>]
\* GET /categories?count=100
CategoriesResponse == [i \in 1..PoolSize |-> [id |-> i, title |-> Title(i)]]
\* GET /category?id=<id>
CategoryResponse(id) ==
    [title |-> Title(id), clues |-> [j \in 1..ClueCount(id) |-> RemoteClue(id, j)]]

----------------------------------------------------------------------------
(* Random sampling: lodash's _.sampleSize over Math.random.                *)
(* A random number in [0, 1) is a pair <<num, den>> standing for num/den.   *)

\* baseRandom(lower, upper) = lower + floor(Math.random() * (upper - lower + 1))
baseRandom(lower, upper, r) == lower + ((r[1] * (upper - lower + 1)) \div r[2])

Swap(array, a, b) == [array EXCEPT ![a] = array[b], ![b] = array[a]]

\* shuffleSelf(array, size): a partial Fisher-Yates shuffle, one draw per slot.
RECURSIVE shuffleSelf(_, _, _, _)
shuffleSelf(array, size, rs, index) ==
    IF index > size THEN SubSeq(array, 1, size)
    ELSE shuffleSelf(Swap(array, index, baseRandom(index, Len(array), rs[index])),
                     size, rs, index + 1)

\* The number of elements _.sampleSize(array, n) returns: n clamped to the array.
SampleLen(array, n) == Min(Max(n, 0), Len(array))

sampleSize(array, n, rs) == shuffleSelf(array, SampleLen(array, n), rs, 1)

\* The next n numbers of the generator, and its state after them.
RandomDraws(r, n) == [i \in 1..n |-> <<(r + i - 1) % RandModulus, RandModulus>>]
AdvanceRng(r, n) == (r + n) % RandModulus

----------------------------------------------------------------------------
(* The two fetchers. A response is [ok |-> FALSE] when the request failed  *)
(* (axios.get rejects) and [ok |-> TRUE, data |-> ...] otherwise.          *)

NetworkError == [ok |-> FALSE]
Success(data) == [ok |-> TRUE, data |-> data]

Ids(data) == [i \in 1..Len(data) |-> data[i].id]

\* A fetcher that draws each identifier on its own, with replacement.
fetchCategoryIdsWithReplacement(response, rs) ==
    IF response.ok
    THEN [defined |-> TRUE,
          value |-> [i \in 1..CATEGORY_TOTAL |->
                        Ids(response.data)[baseRandom(1, Len(response.data), rs[i])]]]
    ELSE Undefined

\* A fetcher that returns an empty list when the request fails.
fetchCategoryIdsEmptyOnFailure(response, rs) ==
    IF response.ok
    THEN [defined |-> TRUE, value |-> sampleSize(Ids(response.data), CATEGORY_TOTAL, rs)]
    ELSE [defined |-> TRUE, value |-> <<>>]

\* async function fetchCategoryIds(): the sampled ids, or undefined on failure.
fetchCategoryIds(response, rs) ==
    IF response.ok
    THEN [defined |-> TRUE, value |-> sampleSize(Ids(response.data), CATEGORY_TOTAL, rs)]
    ELSE Undefined

ClueOf(clue) == [question |-> clue.question, answer |-> clue.answer, showing |-> "null"]

SampledClues(clues, rs) ==
    LET sample == sampleSize(clues, CLUES_PER_CATEGORY, rs)
    IN  [j \in 1..Len(sample) |-> ClueOf(sample[j])]

\* async function fetchCategoryData(catId): {title, clues}, or undefined on failure.
fetchCategoryData(response, rs) ==
    IF response.ok
    THEN [defined |-> TRUE, title |-> response.data.title,
          clues |-> SampledClues(response.data.clues, rs)]
    ELSE Undefined

----------------------------------------------------------------------------
(* Scoreboard and leaderboard *)

addPointsDouble(score) == score + 200
addPoints(score) == score + 100
subtractNoFloor(score) == score - 100
subtractPoints(score) == Max(0, score - 100)

\* An adjustScore that always changes the first team's score.
adjustedFirstTeam(scores, team, adjust) ==
    IF adjust = "add" THEN [scores EXCEPT ![1] = addPoints(@)]
    ELSE IF adjust = "subtract" THEN [scores EXCEPT ![1] = subtractPoints(@)]
    ELSE scores
\* The body of adjustScore on the score mapping: lines 113-117.
adjusted(scores, team, adjust) ==
    IF adjust = "add" THEN [scores EXCEPT ![team] = addPoints(@)]
    ELSE IF adjust = "subtract" THEN [scores EXCEPT ![team] = subtractPoints(@)]
    ELSE scores

\* The comparator (a, b) => teamScores[b] - teamScores[a].
compareTeams(scores, a, b) == scores[b] - scores[a]

\* Array.prototype.sort is stable: an element goes before the first one the
\* comparator orders it strictly before, and after every one it ties with.
\* An insertion that puts an element before the ones it ties with.
RECURSIVE insertSortedUnstable(_, _, _)
insertSortedUnstable(sorted, a, scores) ==
    IF sorted = <<>> THEN <<a>>
    ELSE IF compareTeams(scores, a, Head(sorted)) <= 0 THEN <<a>> \o sorted
    ELSE <<Head(sorted)>> \o insertSortedUnstable(Tail(sorted), a, scores)

RECURSIVE insertSorted(_, _, _)
insertSorted(sorted, a, scores) ==
    IF sorted = <<>> THEN <<a>>
    ELSE IF compareTeams(scores, a, Head(sorted)) < 0 THEN <<a>> \o sorted
    ELSE <<Head(sorted)>> \o insertSorted(Tail(sorted), a, scores)

RECURSIVE sortKeys(_, _)
sortKeys(keys, scores) ==
    IF keys = <<>> THEN <<>>
    ELSE insertSorted(sortKeys(SubSeq(keys, 1, Len(keys) - 1), scores),
                      keys[Len(keys)], scores)

\* Object.keys(teamScores).sort(...): integer keys enumerate in ascending order.
sortedTeams(scores) == sortKeys(Teams, scores)

\* The <li> items updateLeaderboard and completeGame append: team and score.
RankingItems(scores) ==
    LET sorted == sortedTeams(scores)
    IN  [i \in 1..Len(sorted) |-> <<sorted[i], scores[sorted[i]]>>]

\* A heading that names the last team of the ranking.
winningTeamLast(scores) == sortedTeams(scores)[Len(sortedTeams(scores))]
\* $("#winning-team").text(sortedTeams[0]): line 137.
winningTeam(scores) == sortedTeams(scores)[1]

----------------------------------------------------------------------------
(* Panels *)

show(v, panel) == [v EXCEPT ![panel] = TRUE]
hide(v, panel) == [v EXCEPT ![panel] = FALSE]
\* showLoading / removeLoading on the panels.
showLoading(v) == show(v, "loading")
removeLoadingNoop(v) == v
removeLoading(v) == hide(v, "loading")

----------------------------------------------------------------------------
(* Board renderer and clue cells *)

ValueHeader == <<"Value">>
NoCells == [x \in {} |-> HiddenText]

AllDefined(cats) == \A c \in 1..Len(cats) : cats[c].defined

\* createGameBoard's header row: cat.title of an undefined entry throws before
\* the row is appended, and the async function swallows the throw.
boardHeader(cats) ==
    IF AllDefined(cats) THEN <<ValueHeader>> \o [c \in 1..Len(cats) |-> cats[c].title]
    ELSE <<>>

\* createGameBoard's clue cells: CLUES_PER_CATEGORY rows, one cell per category.
boardCells(cats) ==
    IF AllDefined(cats)
    THEN [x \in (0..(Len(cats) - 1)) \X (0..(CLUES_PER_CATEGORY - 1)) |-> HiddenText]
    ELSE NoCells

\* gameCategories[catIndex].clues[clueIndex] exists (else reading .showing throws).
HasClue(cats, c, i) ==
    /\ c + 1 \in 1..Len(cats)
    /\ cats[c + 1].defined
    /\ i + 1 \in 1..Len(cats[c + 1].clues)

ClueAt(cats, c, i) == cats[c + 1].clues[i + 1]

\* handleCellClick's two branches on clue.showing.
\* A click that cycles an answered clue back to hidden.
nextShowingCycle(showing) ==
    IF showing = "null" THEN "question"
    ELSE IF showing = "question" THEN "answer"
    ELSE "null"

nextShowing(showing) ==
    IF showing = "null" THEN "question"
    ELSE IF showing = "question" THEN "answer"
    ELSE showing

\* A click that shows the answer straight away.
clickedTextAnswer(clue, text) ==
    IF clue.showing = "null" THEN clue.answer
    ELSE IF clue.showing = "question" THEN clue.answer
    ELSE text

clickedText(clue, text) ==
    IF clue.showing = "null" THEN clue.question
    ELSE IF clue.showing = "question" THEN clue.answer
    ELSE text

\* A click that reveals every clue of the clicked cell's category.
clickedColumn(cats, c, i) ==
    [cats EXCEPT ![c + 1].clues =
        [j \in 1..Len(@) |-> [@[j] EXCEPT !.showing = nextShowing(@)]]]
\* clue.showing = "question" / "answer": lines 93, 97.
clickedCategories(cats, c, i) ==
    [cats EXCEPT ![c + 1].clues[i + 1].showing = nextShowing(@)]

clickedCells(cs, cats, c, i) ==
    [cs EXCEPT ![<<c, i>>] = clickedText(ClueAt(cats, c, i), @)]

----------------------------------------------------------------------------
(* Which controls the user can reach. The page's markup is not part of the  *)
(* source: a control is taken to be clickable while the panel of the        *)
(* lifecycle state it belongs to is shown (spec section 4.7), the score     *)
(* buttons at any time (spec section 5).                                    *)

CanStart == visible["start"]
CanRestart == visible["board"]
CanComplete == visible["board"]
CanReturn == visible["rankings"]
CanAdjust == TRUE
CanClickCell(c, i) == visible["board"] /\ <<c, i>> \in DOMAIN cells

----------------------------------------------------------------------------
(* The requests a setup issues: how many categories requests (axios.get of  *)
(* line 18) and, in order, the identifiers of its category requests (line   *)
(* 36).                                                                     *)

NoRequests == [categories |-> 0, category |-> <<>>]
\* fetchCategoryIds is called once, by the setup as it starts.
issueCategoriesRequest == [categories |-> 1, category |-> <<>>]
\* A fetcher that asks for the category a second time.
issueCategoryRequestTwice(reqs, id) == [reqs EXCEPT !.category = @ \o <<id, id>>]
\* fetchCategoryData(id) is called once for the loop's current id.
issueCategoryRequest(reqs, id) == [reqs EXCEPT !.category = Append(@, id)]

----------------------------------------------------------------------------
(* Initial state: the module-level initialisers and $(document).ready.     *)

Init ==
    /\ visible = [p \in Panels |-> p = "start"]
    /\ pc = "idle"
    /\ requests = NoRequests
    /\ lastResponse = [categories |-> NetworkError, category |-> NetworkError]
    /\ categoryIds = Undefined
    /\ gameCategories = <<>>
    /\ teamScores = [t \in TeamSet |-> 0]
    /\ thead = <<>>
    /\ cells = NoCells
    /\ scoreText = [t \in TeamSet |-> 0]
    /\ rankings = <<>>
    /\ winningHeading = 0
    /\ finalRankings = <<>>
    /\ gameElements = FALSE
    /\ rng \in 0..(RandModulus - 1)

----------------------------------------------------------------------------
(* User actions *)

\* #start-game-btn click: lines 212-220 (the timer's callback is TimerFires).
StartClick ==
    /\ CanStart
    /\ visible' = show(hide(visible, "start"), "loading")
    /\ pc' = "timer"
    /\ UNCHANGED <<requests, lastResponse, categoryIds, gameCategories, teamScores, thead, cells, scoreText,
                   rankings, winningHeading, finalRankings, gameElements, rng>>

\* #restart-game-btn click: lines 222-229.
RestartClick ==
    /\ CanRestart
    /\ visible' = show(hide(visible, "board"), "loading")
    /\ pc' = "timer"
    /\ UNCHANGED <<requests, lastResponse, categoryIds, gameCategories, teamScores, thead, cells, scoreText,
                   rankings, winningHeading, finalRankings, gameElements, rng>>

\* .adjust-score click: adjustScore, then updateLeaderboard.
AdjustScore(team, adjust) ==
    /\ CanAdjust
    /\ teamScores' = adjusted(teamScores, team, adjust)
    /\ scoreText' = [scoreText EXCEPT ![team] = teamScores'[team]]
    /\ rankings' = RankingItems(teamScores')
    /\ winningHeading' = winningTeam(teamScores')
    /\ UNCHANGED <<visible, pc, requests, lastResponse, categoryIds, gameCategories, thead, cells,
                   finalRankings, gameElements, rng>>

Revealed(cats) ==
    {x \in (0..(Len(cats) - 1)) \X (0..(CLUES_PER_CATEGORY - 1)) :
        HasClue(cats, x[1], x[2]) /\ ClueAt(cats, x[1], x[2]).showing # "null"}

\* .clue-cell click: handleCellClick. Reading .showing of a missing clue throws
\* a TypeError before anything is changed.
CellClick(c, i) ==
    /\ CanClickCell(c, i)
    /\ IF HasClue(gameCategories, c, i)
       THEN /\ cells' = clickedCells(cells, gameCategories, c, i)
            /\ gameCategories' = clickedCategories(gameCategories, c, i)
       ELSE UNCHANGED <<cells, gameCategories>>
    /\ UNCHANGED <<visible, pc, requests, lastResponse, categoryIds, teamScores, thead, scoreText, rankings,
                   winningHeading, finalRankings, gameElements, rng>>

\* #complete-game-btn click: completeGame.
CompleteGame ==
    /\ CanComplete
    /\ visible' = show(hide(visible, "board"), "rankings")
    /\ finalRankings' = RankingItems(teamScores)
    /\ UNCHANGED <<pc, requests, lastResponse, categoryIds, gameCategories, teamScores, thead, cells, scoreText,
                   rankings, winningHeading, gameElements, rng>>

\* #back-to-main-btn click: returnToMain.
ReturnToMain ==
    /\ CanReturn
    /\ visible' = show(hide(visible, "rankings"), "start")
    /\ UNCHANGED <<pc, requests, lastResponse, categoryIds, gameCategories, teamScores, thead, cells, scoreText,
                   rankings, winningHeading, finalRankings, gameElements, rng>>

----------------------------------------------------------------------------
(* Game setup: the timer callback and setupAndStartGame, cut at its awaits. *)

\* The panels after the timer callback: line 217, then showLoading (line 162).
\* The timer callback without showLoading.
timerPanelsNoShow(v) == hide(v, "loading")
timerPanels(v) == showLoading(hide(v, "loading"))
\* A setup that shows the board and keeps the loading screen.
finishPanelsKeepLoading(v) == show(v, "board")
\* The panels after lines 176-177.
finishPanels(v) == removeLoading(show(v, "board"))
\* A setup that keeps the previous game's categories.
keptCategories(cats) == cats
\* gameCategories = []: line 169.
clearedCategories(cats) == <<>>
\* A loop that drops the data of a failed fetch.
pushDefined(cats, data) == IF data.defined THEN Append(cats, data) ELSE cats
\* A loop that puts each category first.
pushFront(cats, data) == <<data>> \o cats
\* gameCategories.push(...): line 171.
pushCategory(cats, data) == Append(cats, data)

\* The timer of a start or restart click fires: the loading screen is hidden
\* and setupAndStartGame runs to its first await (lines 162-168).
TimerFires ==
    /\ pc = "timer"
    /\ visible' = timerPanels(visible)
    /\ thead' = <<>>
    /\ cells' = NoCells
    /\ teamScores' = [t \in TeamSet |-> 0]
    /\ scoreText' = [t \in TeamSet |-> 0]
    /\ rankings' = RankingItems(teamScores')
    /\ winningHeading' = winningTeam(teamScores')
    /\ pc' = "awaitIds"
    /\ requests' = issueCategoriesRequest
    /\ UNCHANGED <<lastResponse, categoryIds, gameCategories, finalRankings, gameElements, rng>>

\* Lines 174-177: createGameBoard, show the game elements and the board panel,
\* hide the loading panel.
FinishSetup(cats) ==
    /\ thead' = boardHeader(cats)
    /\ cells' = boardCells(cats)
    /\ gameElements' = TRUE
    /\ visible' = finishPanels(visible)
    /\ pc' = "idle"

\* The categories request completes with `resp`: fetchCategoryIds returns (its
\* sample drawn with the random numbers rs), line 169 clears the list and the
\* loop issues the first category request. Iterating an undefined categoryIds
\* throws a TypeError nothing catches: setupAndStartGame's promise is rejected.
IdsArrive(resp, rs) ==
    /\ pc = "awaitIds"
    /\ lastResponse' = [lastResponse EXCEPT !.categories = resp]
    /\ LET result == fetchCategoryIds(resp, rs)
       IN  /\ categoryIds' = result
           /\ gameCategories' = clearedCategories(gameCategories)
           /\ IF ~result.defined
              THEN /\ pc' = "rejected"
                   /\ UNCHANGED <<requests, visible, thead, cells, gameElements>>
              ELSE IF Len(result.value) = 0
              THEN FinishSetup(gameCategories') /\ UNCHANGED requests
              ELSE /\ pc' = "awaitData"
                   /\ requests' = issueCategoryRequest(requests, categoryIds'.value[1])
                   /\ UNCHANGED <<visible, thead, cells, gameElements>>
    /\ UNCHANGED <<teamScores, scoreText, rankings, winningHeading, finalRankings>>

\* A category request completes with `resp`: fetchCategoryData returns, its
\* result is pushed, and the loop issues the next request or the setup finishes.
DataArrive(resp, rs) ==
    /\ pc = "awaitData"
    /\ lastResponse' = [lastResponse EXCEPT !.category = resp]
    /\ gameCategories' = pushCategory(gameCategories, fetchCategoryData(resp, rs))
    /\ IF Len(gameCategories') < Len(categoryIds.value)
       THEN /\ pc' = "awaitData"
            /\ requests' = issueCategoryRequest(requests,
                                categoryIds.value[Len(gameCategories') + 1])
            /\ UNCHANGED <<visible, thead, cells, gameElements>>
       ELSE FinishSetup(gameCategories') /\ UNCHANGED requests
    /\ UNCHANGED <<categoryIds, teamScores, scoreText, rankings, winningHeading,
                   finalRankings>>

\* The identifier the pending category request asks for.
PendingId == categoryIds.value[Len(gameCategories) + 1]

\* The remote service answers, and the sample is drawn from the generator.
IdsResponse(ok) ==
    LET resp == IF ok THEN Success(CategoriesResponse) ELSE NetworkError
    IN  /\ IdsArrive(resp, RandomDraws(rng, CATEGORY_TOTAL))
        /\ rng' = IF ok THEN AdvanceRng(rng, SampleLen(resp.data, CATEGORY_TOTAL)) ELSE rng

DataResponse(ok) ==
    /\ pc = "awaitData"
    /\ LET resp == IF ok THEN Success(CategoryResponse(PendingId)) ELSE NetworkError
       IN  /\ DataArrive(resp, RandomDraws(rng, CLUES_PER_CATEGORY))
           /\ rng' = IF ok THEN AdvanceRng(rng, SampleLen(resp.data.clues, CLUES_PER_CATEGORY))
                     ELSE rng

----------------------------------------------------------------------------
(* Bounds on what the environment does *)

Sum(scores) == scores[1] + scores[2] + scores[3]
ScoreRoom(adjust, limit) == adjust = "add" => Sum(teamScores) < limit * 100

RevealRoom(c, i, revealed) ==
    (HasClue(gameCategories, c, i) /\ ClueAt(gameCategories, c, i).showing = "null")
        => revealed < MaxRevealed

ClickRoom(c, i) == c * CLUES_PER_CATEGORY + i < MaxCellsAll

Failed(cats) == {c \in 1..Len(cats) : ~cats[c].defined}
FailureRoom(ok) == ~ok => Cardinality(Failed(gameCategories)) < MaxFailures

Adjustments == {"add", "subtract"}

----------------------------------------------------------------------------
(* The whole program: every user action and every callback. *)

Next ==
    \/ StartClick
    \/ RestartClick
    \/ TimerFires
    \/ \E ok \in BOOLEAN : IdsResponse(ok)
    \/ \E ok \in BOOLEAN : FailureRoom(ok) /\ DataResponse(ok)
    \/ \E team \in TeamSet, adjust \in Adjustments :
           ScoreRoom(adjust, MaxPointsAll) /\ AdjustScore(team, adjust)
    \/ \E x \in DOMAIN cells : ClickRoom(x[1], x[2]) /\ CellClick(x[1], x[2])
    \/ CompleteGame
    \/ ReturnToMain

Spec == Init /\ [][Next]_vars

(* The board over whole games whose requests succeed. *)

NextBoard ==
    \/ StartClick
    \/ RestartClick
    \/ TimerFires
    \/ IdsResponse(TRUE)
    \/ DataResponse(TRUE)
    \/ LET revealed == Cardinality(Revealed(gameCategories))
       IN  \E x \in DOMAIN cells : RevealRoom(x[1], x[2], revealed) /\ CellClick(x[1], x[2])
    \/ CompleteGame
    \/ ReturnToMain

SpecBoard == Init /\ [][NextBoard]_vars

(* The scoreboard over whole games whose requests succeed. *)

NextScore ==
    \/ StartClick
    \/ RestartClick
    \/ TimerFires
    \/ IdsResponse(TRUE)
    \/ DataResponse(TRUE)
    \/ \E team \in TeamSet, adjust \in Adjustments :
           ScoreRoom(adjust, MaxPoints) /\ AdjustScore(team, adjust)
    \/ CompleteGame
    \/ ReturnToMain

SpecScore == Init /\ [][NextScore]_vars

(* The same games with the deliveries the browser owes the page: a timer set *)
(* by setTimeout fires, and a request that is going to succeed is answered.  *)
(* No handler clears the timer or aborts a request, so each delivery stays   *)
(* enabled until it is taken and weak fairness is enough. The two response   *)
(* deliveries are named by what they do to the setup's position and to the   *)
(* requests it has issued: in these games a step does that exactly when it   *)
(* is IdsResponse(TRUE), or DataResponse(TRUE).                              *)

\* await fetchCategoryIds() resumes: the first category request is issued.
IdsDelivered ==
    /\ pc = "awaitIds"
    /\ pc' = "awaitData"
    /\ \E id \in 1..PoolSize : requests' = issueCategoryRequest(requests, id)

\* await fetchCategoryData(id) resumes: the next request is issued, or the
\* loop is over and the setup runs to its end.
DataDelivered ==
    /\ pc = "awaitData"
    /\ IF Len(requests.category) < Len(categoryIds.value)
       THEN /\ pc' = "awaitData"
            /\ requests' = issueCategoryRequest(requests,
                               categoryIds.value[Len(requests.category) + 1])
       ELSE /\ pc' = "idle"
            /\ requests' = requests

SpecLive ==
    /\ Init /\ [][NextScore]_vars
    /\ WF_vars(TimerFires)
    /\ WF_<<pc, requests>>(IdsDelivered)
    /\ WF_<<pc, requests>>(DataDelivered)

----------------------------------------------------------------------------
(* The samplers alone: the request is answered with any pool (any category) *)
(* and the sample is drawn with any random numbers.                         *)

\* Every choice of random numbers for slots index..size of a sample from an
\* array of len elements: slot i draws k / (len - i + 1), one value per element
\* that baseRandom can pick there.
RECURSIVE FreeDraws(_, _, _)
FreeDraws(len, size, index) ==
    IF index > size THEN {<<>>}
    ELSE {<<<<k, len - index + 1>>>> \o rest :
              k \in 0..(len - index), rest \in FreeDraws(len, size, index + 1)}

AnyDraws(array, n) == FreeDraws(Len(array), SampleLen(array, n), 1)

\* The categories request returns a pool of CATEGORY_TOTAL..PoolSize candidates.
Pool(n) == SubSeq(CategoriesResponse, 1, n)

IdsFree ==
    /\ pc = "awaitIds"
    /\ \E n \in CATEGORY_TOTAL..PoolSize :
           \E rs \in AnyDraws(Pool(n), CATEGORY_TOTAL) : IdsArrive(Success(Pool(n)), rs)
    /\ rng' = rng

NextIds ==
    \/ StartClick
    \/ TimerFires
    \/ IdsFree

SpecIds == Init /\ [][NextIds]_vars

\* The first identifier drawn is any of the pool.
IdsAnyFirst ==
    /\ pc = "awaitIds"
    /\ \E k \in 0..(PoolSize - 1) :
           IdsArrive(Success(CategoriesResponse),
                     [j \in 1..CATEGORY_TOTAL |-> IF j = 1 THEN <<k, PoolSize>> ELSE <<0, 1>>])
    /\ rng' = rng

\* The first category request of the setup, answered for the drawn identifier.
DataFree ==
    /\ pc = "awaitData"
    /\ gameCategories = <<>>
    /\ LET data == CategoryResponse(PendingId)
       IN  \E rs \in AnyDraws(data.clues, CLUES_PER_CATEGORY) : DataArrive(Success(data), rs)
    /\ rng' = rng

NextData ==
    \/ StartClick
    \/ TimerFires
    \/ IdsAnyFirst
    \/ DataFree

SpecData == Init /\ [][NextData]_vars

----------------------------------------------------------------------------
(* Properties *)

\* The setup flow has one position: a start or restart control is reachable
\* only while no timer is pending and no setup is running.
SingleSetup == (CanStart \/ CanRestart) => pc = "idle"

Shown(v) == {p \in Panels : v[p]}
AllCells == (0..(CATEGORY_TOTAL - 1)) \X (0..(CLUES_PER_CATEGORY - 1))
NoDuplicates(seq) == \A i, j \in 1..Len(seq) : i # j => seq[i] # seq[j]
ZeroScores == [t \in TeamSet |-> 0]

\* C1: every team's score is an integer >= 0 in every reachable state; a
\* subtract on a team at 0 leaves it at 0.
C1_ScoresNonNegative ==
    \A t \in TeamSet : teamScores[t] \in Nat

\* A subtract has acted on a team at 0: before any setup ran, only adjustScore
\* renders the leaderboard, and every score is (still) 0.
C1_Witness ==
    /\ visible["start"] /\ ~gameElements
    /\ rankings # <<>>
    /\ teamScores = ZeroScores

\* C2: a clue's reveal state moves only null -> question -> answer, one step
\* per click on its cell, and a click on an answered clue leaves it answered.
RevealSteps ==
    {<<"null", "null">>, <<"null", "question">>, <<"question", "question">>,
     <<"question", "answer">>, <<"answer", "answer">>}
RevealAfter(showing) ==
    CASE showing = "null" -> "question"
      [] showing = "question" -> "answer"
      [] showing = "answer" -> "answer"

C2_RevealOneStep ==
    [][/\ \A x \in AllCells :
              (HasClue(gameCategories, x[1], x[2]) /\ CellClick(x[1], x[2]))
                  => /\ HasClue(gameCategories', x[1], x[2])
                     /\ ClueAt(gameCategories', x[1], x[2]).showing
                            = RevealAfter(ClueAt(gameCategories, x[1], x[2]).showing)
       /\ \A x \in AllCells :
              (HasClue(gameCategories, x[1], x[2]) /\ HasClue(gameCategories', x[1], x[2]))
                  => <<ClueAt(gameCategories, x[1], x[2]).showing,
                       ClueAt(gameCategories', x[1], x[2]).showing>> \in RevealSteps
      ]_vars

C2_Witness ==
    \E x \in DOMAIN cells :
        /\ HasClue(gameCategories, x[1], x[2])
        /\ ClueAt(gameCategories, x[1], x[2]).showing = "answer"

\* C3: every rendered cell shows "?" while its clue is hidden, the clue's
\* question while it is in question, and its answer while it is in answer.
TextOf(clue) ==
    CASE clue.showing = "null" -> HiddenText
      [] clue.showing = "question" -> clue.question
      [] clue.showing = "answer" -> clue.answer

C3_CellMirrorsClue ==
    \A x \in DOMAIN cells :
        HasClue(gameCategories, x[1], x[2])
            => cells[x] = TextOf(ClueAt(gameCategories, x[1], x[2]))

\* A re-rendered board (an earlier game was completed) with one clue showing
\* its question.
C3_Witness ==
    /\ finalRankings # <<>>
    /\ visible["board"]
    /\ \E x \in DOMAIN cells :
           /\ HasClue(gameCategories, x[1], x[2])
           /\ ClueAt(gameCategories, x[1], x[2]).showing = "question"
           /\ cells[x] = ClueAt(gameCategories, x[1], x[2]).question

\* C4: the ranking of updateLeaderboard and completeGame lists the teams by
\* score descending, equal scores by ascending team identifier, and the
\* winning team is its first entry.
IsRanking(teams, scores) ==
    /\ Len(teams) = Cardinality(TeamSet)
    /\ {teams[i] : i \in 1..Len(teams)} = TeamSet
    /\ \A i, j \in 1..Len(teams) :
           i < j => \/ scores[teams[i]] > scores[teams[j]]
                    \/ scores[teams[i]] = scores[teams[j]] /\ teams[i] < teams[j]

\* Rendered items <<team, score>> are ranked by the scores they show.
ItemsRanked(items) ==
    IsRanking([i \in 1..Len(items) |-> items[i][1]],
              [t \in TeamSet |-> LET i == CHOOSE k \in 1..Len(items) : items[k][1] = t
                                 IN  items[i][2]])

C4_RankingDescending ==
    /\ IsRanking(sortedTeams(teamScores), teamScores)
    /\ winningTeam(teamScores) = sortedTeams(teamScores)[1]
    /\ rankings # <<>> => ItemsRanked(rankings) /\ winningHeading = rankings[1][1]
    /\ finalRankings # <<>> => ItemsRanked(finalRankings)

C4_Witness ==
    /\ teamScores = [t \in TeamSet |-> IF t = 3 THEN 0 ELSE 100]
    /\ finalRankings = <<<<1, 100>>, <<2, 100>>, <<3, 0>>>>
    /\ rankings = finalRankings
    /\ winningHeading = 1

\* C5: adjustScore(team, add) adds exactly 100 to that team's score and
\* adjustScore(team, subtract) sets it to max(0, score - 100); the other
\* teams' scores are unchanged, and nothing but a setup's reset changes a score
\* otherwise.
C5_AdjustExact ==
    [][/\ \A t \in TeamSet, adjust \in Adjustments :
              AdjustScore(t, adjust)
                  => teamScores' =
                         [teamScores EXCEPT ![t] =
                              IF adjust = "add" THEN @ + 100
                              ELSE IF @ > 100 THEN @ - 100 ELSE 0]
       /\ teamScores' # teamScores
              => \/ teamScores' = ZeroScores
                 \/ \E t \in TeamSet :
                        /\ \A u \in TeamSet \ {t} : teamScores'[u] = teamScores[u]
                        /\ \/ teamScores'[t] = teamScores[t] + 100
                           \/ teamScores'[t] = teamScores[t] - 100
      ]_vars

\* Three increases on team 2 after a reset.
C5_Witness ==
    /\ gameElements
    /\ teamScores = [t \in TeamSet |-> IF t = 2 THEN 300 ELSE 0]
    /\ rankings = <<<<2, 300>>, <<1, 0>>, <<3, 0>>>>
    /\ winningHeading = 2

\* C6: in every reachable state exactly one of the four primary panels is
\* visible.
C6_OnePanelVisible ==
    Cardinality(Shown(visible)) = 1

\* The board of a later game: start, complete, back and start again have all
\* acted, with their timers and fetch completions.
C6_Witness ==
    /\ visible["board"]
    /\ finalRankings # <<>>
    /\ pc = "idle"

\* C7: the visible panel changes only along start -> loading (start click),
\* loading -> board (the setup's last fetch completes), board -> loading
\* (restart click), board -> rankings (complete click) and rankings -> start
\* (back click); the board is never shown before every category request of
\* the setup has been answered.
C7_PanelTransitions ==
    [][visible' # visible =>
          \/ /\ Shown(visible) = {"start"} /\ Shown(visible') = {"loading"}
             /\ StartClick
          \/ /\ Shown(visible) = {"loading"} /\ Shown(visible') = {"board"}
             /\ pc \in {"awaitIds", "awaitData"} /\ pc' = "idle"
             /\ categoryIds'.defined
             /\ Len(gameCategories') = Len(categoryIds'.value)
          \/ /\ Shown(visible) = {"board"} /\ Shown(visible') = {"loading"}
             /\ RestartClick
          \/ /\ Shown(visible) = {"board"} /\ Shown(visible') = {"rankings"}
             /\ CompleteGame
          \/ /\ Shown(visible) = {"rankings"} /\ Shown(visible') = {"start"}
             /\ ReturnToMain
      ]_vars

\* Back on the start panel after a whole game: every transition has been taken
\* but the restart.
C7_Witness ==
    /\ visible["start"]
    /\ gameElements
    /\ finalRankings # <<>>

\* C8: when a setup has finished, the category list holds one entry per drawn
\* identifier (CATEGORY_TOTAL of them), in the order drawn, each entry the
\* fetched category of its identifier; the rendered header names them in that
\* order.
IsCategoryOf(cat, id) ==
    /\ cat.title = Title(id)
    /\ \A j \in 1..Len(cat.clues) :
           \E k \in 1..ClueCount(id) :
               /\ cat.clues[j].question = RemoteClue(id, k).question
               /\ cat.clues[j].answer = RemoteClue(id, k).answer

C8_CategoriesInDrawnOrder ==
    /\ (pc = "idle" /\ categoryIds.defined) =>
           /\ Len(categoryIds.value) = CATEGORY_TOTAL
           /\ Len(gameCategories) = CATEGORY_TOTAL
           /\ \A c \in 1..Len(gameCategories) :
                  gameCategories[c].defined
                      => IsCategoryOf(gameCategories[c], categoryIds.value[c])
    /\ thead # <<>> =>
           /\ pc \in {"idle", "timer"} /\ categoryIds.defined
           /\ AllDefined(gameCategories)
           /\ thead = <<ValueHeader>> \o
                  [c \in 1..CATEGORY_TOTAL |-> Title(categoryIds.value[c])]

\* A rendered board whose identifiers were not drawn in the pool's order.
C8_Witness ==
    /\ thead # <<>>
    /\ visible["board"]
    /\ \E c \in 1..(CATEGORY_TOTAL - 1) : categoryIds.value[c] > categoryIds.value[c + 1]

\* C9: on a successful categories request fetchCategoryIds returns exactly
\* CATEGORY_TOTAL identifiers, no two equal, each the identifier of a category
\* of the pool the request returned.
C9_IdsSampledFromPool ==
    (pc = "awaitData" /\ lastResponse.categories.ok) =>
        /\ categoryIds.defined
        /\ Len(categoryIds.value) = CATEGORY_TOTAL
        /\ NoDuplicates(categoryIds.value)
        /\ \A i \in 1..Len(categoryIds.value) :
               \E k \in 1..Len(lastResponse.categories.data) :
                   lastResponse.categories.data[k].id = categoryIds.value[i]

\* A sample of the largest pool that starts with the pool's last identifier
\* and leaves its first identifier out.
C9_Witness ==
    /\ pc = "awaitData"
    /\ Len(lastResponse.categories.data) = PoolSize
    /\ categoryIds.value[1] = PoolSize
    /\ \A i \in 1..Len(categoryIds.value) : categoryIds.value[i] # 1

\* C10: fetchCategoryData returns the category's title and exactly
\* CLUES_PER_CATEGORY clues, no clue twice, each a clue of the category with
\* its question and answer, each hidden.
C10_ExactlyFiveHiddenClues ==
    (pc = "awaitData" /\ Len(gameCategories) = 1 /\ lastResponse.category.ok) =>
        LET cat == gameCategories[1]
            data == lastResponse.category.data
        IN  /\ cat.defined
            /\ cat.title = data.title
            /\ Len(cat.clues) = CLUES_PER_CATEGORY
            /\ NoDuplicates(cat.clues)
            /\ \A j \in 1..Len(cat.clues) :
                   /\ cat.clues[j].showing = "null"
                   /\ \E k \in 1..Len(data.clues) :
                          /\ data.clues[k].question = cat.clues[j].question
                          /\ data.clues[k].answer = cat.clues[j].answer

C12_SetupOverwritesGame ==
    [][/\ (pc = "timer" /\ pc' # "timer") =>
              /\ teamScores' = ZeroScores
              /\ \A t \in TeamSet : scoreText'[t] = 0
       /\ (pc = "awaitIds" /\ pc' # "awaitIds") => gameCategories' = <<>>
       /\ (~visible["board"] /\ visible'["board"]) =>
              /\ categoryIds'.defined
              /\ Len(gameCategories') = Len(categoryIds'.value)
              /\ \A c \in 1..Len(gameCategories') :
                     gameCategories'[c].defined =>
                         /\ IsCategoryOf(gameCategories'[c], categoryIds'.value[c])
                         /\ \A j \in 1..Len(gameCategories'[c].clues) :
                                gameCategories'[c].clues[j].showing = "null"
              /\ \A x \in DOMAIN cells' : cells'[x] = HiddenText
      ]_vars

\* The fresh board of a later game: the previous game ended with points on the
\* leaderboard, and now every score is 0 and every clue of six fetched
\* categories is hidden.
C12_Witness ==
    /\ visible["board"]
    /\ finalRankings # <<>>
    /\ finalRankings[1][2] > 0
    /\ teamScores = ZeroScores
    /\ Len(gameCategories) = CATEGORY_TOTAL
    /\ AllDefined(gameCategories)
    /\ Revealed(gameCategories) = {}
    /\ DOMAIN cells # {}
    /\ \A x \in DOMAIN cells : cells[x] = HiddenText

\* C13: a failed remote call is swallowed at the fetch boundary: the fetcher
\* hands its caller no identifiers or no data (a failed category request leaves
\* an undefined entry in the list), and no error leaves the game-setup flow
\* because of the failed fetch, that is, setupAndStartGame is never ended by an
\* uncaught error.
C13_FetchFailureSwallowed ==
    /\ (pc \in {"awaitData", "idle"} /\ ~lastResponse.category.ok /\ gameCategories # <<>>) =>
           ~gameCategories[Len(gameCategories)].defined
    /\ pc # "rejected"

\* C14: after a start or restart whose fetches all succeed, the setup
\* eventually shows the board with the loading screen hidden, given that the
\* timer and the responses are delivered; and no other event takes the setup
\* out of its course: its position only moves forward, and it ends only by
\* showing the board.
C14_SetupReachesBoard ==
    /\ (pc = "timer") ~> (visible["board"] /\ ~visible["loading"])
    /\ [][/\ pc = "timer" => pc' \in {"timer", "awaitIds"}
          /\ pc = "awaitIds" => pc' \in {"awaitIds", "awaitData", "idle"}
          /\ pc = "awaitData" => pc' \in {"awaitData", "idle"}
          /\ (pc # "idle" /\ pc' = "idle") => visible'["board"] /\ ~visible'["loading"]
          /\ (pc = "awaitData" /\ pc' = "awaitData") =>
                 Len(gameCategories') >= Len(gameCategories)
         ]_vars

\* The board of a restarted game, reached with a score adjusted on the way.
C14_Witness ==
    /\ visible["board"]
    /\ ~visible["loading"]
    /\ pc = "idle"
    /\ finalRankings # <<>>
    /\ gameElements
    /\ teamScores[2] > 0
    /\ Len(gameCategories) = CATEGORY_TOTAL

\* C15: score adjustments stay enabled while the setup's fetches are
\* outstanding (the guard all score buttons share holds); an adjustment made then is applied at once (score, score text
\* and leaderboard), and from the start of the fetches to the step that shows
\* the board nothing but an adjustment changes a score, so it is still there
\* when the board is shown.
C15_AdjustDuringFetch ==
    /\ [](pc \in {"awaitIds", "awaitData"} =>
              /\ CanAdjust
              /\ ENABLED (\E t \in TeamSet, adj \in Adjustments : AdjustScore(t, adj)))
    /\ [][/\ \A t \in TeamSet :
                 (pc \in {"awaitIds", "awaitData"} /\ AdjustScore(t, "add")) =>
                     /\ teamScores'[t] = teamScores[t] + 100
                     /\ scoreText'[t] = teamScores'[t]
                     /\ pc' = pc
          /\ \A t \in TeamSet :
                 (pc \in {"awaitIds", "awaitData"} /\ AdjustScore(t, "subtract")) =>
                     /\ teamScores'[t] = Max(0, teamScores[t] - 100)
                     /\ scoreText'[t] = teamScores'[t]
                     /\ pc' = pc
          /\ (pc \in {"awaitIds", "awaitData"} /\ teamScores' # teamScores) =>
                 \E t \in TeamSet, adj \in Adjustments : AdjustScore(t, adj)
         ]_vars

\* Part of the categories has arrived, and a team has points it can only have
\* got since the setup reset the scores.
C15_Witness ==
    /\ pc = "awaitData"
    /\ visible["loading"]
    /\ Len(gameCategories) >= 1
    /\ teamScores[2] = 100
    /\ scoreText[2] = 100
    /\ winningHeading = 2

\* C16: a category request that fails in the middle of the sequence does not
\* abort the setup: an undefined entry is pushed for it, the request for the
\* next identifier is still issued, and after the last response the board is
\* shown and the loading screen hidden, with the undefined entry in the list
\* the renderer is given (which then renders no header and no cell).
C16_FailedCategoryDoesNotAbort ==
    [][(/\ pc = "awaitData"
        /\ pc' # pc \/ requests' # requests
        /\ ~lastResponse'.category.ok) =>
           /\ gameCategories' = Append(gameCategories, Undefined)
           /\ IF Len(gameCategories') < Len(categoryIds.value)
              THEN /\ pc' = "awaitData"
                   /\ requests'.category =
                          Append(requests.category,
                                 categoryIds.value[Len(gameCategories') + 1])
                   /\ visible' = visible
              ELSE /\ pc' = "idle"
                   /\ visible'["board"]
                   /\ ~visible'["loading"]
                   /\ thead' = <<>>
                   /\ cells' = NoCells
      ]_vars

\* A board shown after the request for the third identifier failed and the
\* requests for the other five were answered.
C16_Witness ==
    /\ visible["board"]
    /\ ~visible["loading"]
    /\ Len(gameCategories) = CATEGORY_TOTAL
    /\ ~gameCategories[3].defined
    /\ \A c \in 1..CATEGORY_TOTAL : c # 3 => gameCategories[c].defined
    /\ Len(requests.category) = CATEGORY_TOTAL
    /\ cells = NoCells

\* C17: no request is retried: a setup issues the categories request exactly
\* once, and its category requests are one per drawn identifier, in the drawn
\* order and never twice for the same identifier, whether the responses
\* succeed or fail; one request is outstanding per category still to come.
C17_NoRetry ==
    /\ requests.categories \in {0, 1}
    /\ pc \in {"awaitIds", "awaitData", "rejected"} => requests.categories = 1
    /\ requests.category # <<>> =>
           /\ requests.categories = 1
           /\ categoryIds.defined
           /\ Len(requests.category) <= Len(categoryIds.value)
           /\ \A i \in 1..Len(requests.category) :
                  requests.category[i] = categoryIds.value[i]
           /\ NoDuplicates(requests.category)
    /\ pc = "awaitData" => Len(requests.category) = Len(gameCategories) + 1
    /\ pc \in {"awaitIds", "rejected"} => requests.category = <<>>
    /\ (pc = "idle" /\ requests.categories = 1) =>
           Len(requests.category) = Len(categoryIds.value)

\* A setup that ran to its end although its second category request failed:
\* six category requests went out, one per identifier.
C17_Witness ==
    /\ pc = "idle"
    /\ requests.categories = 1
    /\ Len(requests.category) = CATEGORY_TOTAL
    /\ requests.category = categoryIds.value
    /\ ~gameCategories[2].defined
    /\ gameCategories[1].defined

\* C18: a click on cell (c, i) changes at most the reveal state of the clue
\* that cell addresses and the text of that cell: every other cell and clue,
\* every question, answer and title, the category list's shape, the header,
\* the scores with their display and the visible panel stay as they were; and
\* while the board stays shown, a step changes at most one cell.
C18_ClickChangesOneClue ==
    [][/\ \A x \in AllCells :
              CellClick(x[1], x[2]) =>
                  /\ DOMAIN cells' = DOMAIN cells
                  /\ \A y \in DOMAIN cells : y # x => cells'[y] = cells[y]
                  /\ Len(gameCategories') = Len(gameCategories)
                  /\ \A c \in 1..Len(gameCategories) :
                         /\ gameCategories'[c].defined = gameCategories[c].defined
                         /\ gameCategories[c].defined =>
                                /\ gameCategories'[c].title = gameCategories[c].title
                                /\ Len(gameCategories'[c].clues) = Len(gameCategories[c].clues)
                                /\ \A j \in 1..Len(gameCategories[c].clues) :
                                       LET old == gameCategories[c].clues[j]
                                           new == gameCategories'[c].clues[j]
                                       IN  /\ new.question = old.question
                                           /\ new.answer = old.answer
                                           /\ <<c - 1, j - 1>> # x => new.showing = old.showing
                  /\ visible' = visible
                  /\ thead' = thead
                  /\ teamScores' = teamScores
                  /\ scoreText' = scoreText
                  /\ rankings' = rankings
                  /\ winningHeading' = winningHeading
                  /\ categoryIds' = categoryIds
       /\ (visible["board"] /\ visible'["board"]) =>
              \E x \in AllCells : \A y \in DOMAIN cells : y # x => cells'[y] = cells[y]
      ]_vars

\* A board on which one clue was clicked through to its answer while every
\* other cell still shows "?" and every other clue is hidden.
C18_Witness ==
    /\ visible["board"]
    /\ \E x \in DOMAIN cells :
           /\ HasClue(gameCategories, x[1], x[2])
           /\ ClueAt(gameCategories, x[1], x[2]).showing = "answer"
           /\ cells[x] = ClueAt(gameCategories, x[1], x[2]).answer
           /\ Revealed(gameCategories) = {x}
           /\ \A y \in DOMAIN cells : y # x => cells[y] = HiddenText

\* C19: every rendered cell addresses an existing clue: for each cell (c, i)
\* on the board, category c exists and has a clue i, whatever categories the
\* remote service returned (one with fewer than CLUES_PER_CATEGORY clues
\* included) and across restarts.
C19_CellsAddressClues ==
    \A x \in DOMAIN cells : HasClue(gameCategories, x[1], x[2])

\* C20: when the categories request fails, that setup never shows the board:
\* the step that delivers the failure leaves the category list empty, issues
\* no category request and ends the setup with the loading screen shown; from
\* then on the loading screen is the only panel shown, the table is empty, no
\* delivery is pending and no lifecycle control can be reached, so nothing
\* changes the panels or the category list again.
C20_FailedIdsStaysLoading ==
    /\ [][(pc = "awaitIds" /\ pc' # pc /\ ~lastResponse'.categories.ok) =>
              /\ pc' = "rejected"
              /\ ~categoryIds'.defined
              /\ gameCategories' = <<>>
              /\ requests' = requests
              /\ visible' = visible
         ]_vars
    /\ [](pc = "rejected" =>
              /\ Shown(visible) = {"loading"}
              /\ gameCategories = <<>>
              /\ requests.category = <<>>
              /\ thead = <<>>
              /\ cells = NoCells
              /\ ~ENABLED (\/ StartClick
                           \/ RestartClick
                           \/ TimerFires
                           \/ \E ok \in BOOLEAN : IdsResponse(ok)
                           \/ \E ok \in BOOLEAN : DataResponse(ok)
                           \/ \E x \in AllCells : CellClick(x[1], x[2])
                           \/ CompleteGame
                           \/ ReturnToMain))
    /\ [][pc = "rejected" =>
              /\ pc' = "rejected"
              /\ visible' = visible
              /\ gameCategories' = gameCategories
              /\ requests' = requests
         ]_vars

\* The loading screen of a restarted game whose categories request failed: a
\* game was completed before, a team has been given points since, and the
\* screen is still shown.
C20_Witness ==
    /\ pc = "rejected"
    /\ visible["loading"]
    /\ finalRankings # <<>>
    /\ requests = issueCategoriesRequest
    /\ \E t \in TeamSet : teamScores[t] > 0

====
